---- MODULE Spec2Model ----
(***************************************************************************)
(* Model of src/pages/teacher.py, the teacher dashboard (a Streamlit       *)
(* script that is re-run from the top on every interaction).               *)
(*                                                                         *)
(* Five specifications share the variables:                                *)
(*   SpecClassify  ox_from_feedback applied to bounded feedback values     *)
(*   SpecGate      teacher_gate over a sequence of script runs             *)
(*   SpecStats     the script up to build_analytics, on bounded rows       *)
(*   Spec          the body of the script after the gate (to_df, the       *)
(*                 filters, build_analytics, the detail view, the          *)
(*                 per-student summary) on the submissions of two students *)
(*   SpecFilter    the same body under the sidebar filters, on rows with   *)
(*                 null fields                                             *)
(*                                                                         *)
(* Text is a sequence of one-character strings, so that strip, startswith, *)
(* lower and substring search are computed and not assumed.  A Python      *)
(* value that may be None is a record [isStr, chars].                      *)
(***************************************************************************)
EXTENDS Integers, Sequences, FiniteSets, TLC

VARIABLES
    \* ---- ox_from_feedback on its own
    feedback,       \* the argument
    tag,            \* <<>> before the call, <<result>> after it
    \* ---- teacher_gate
    secrets,        \* st.secrets: a function from key to text
    session_state,  \* st.session_state: a function from key to value
    input_pw,       \* the password text_input of the current run
    clicked,        \* the login button of the current run
    gpc,            \* where the current run is: "idle", "gate", "main", "stopped"
    run_no,         \* script runs started so far
    \* ---- the script body
    rows,           \* what fetch_rows returned
    columns,        \* the keys of the fetched rows (the table's schema)
    widgets,        \* the sidebar inputs of this run
    df_f,           \* the filtered frame
    ana,            \* what build_analytics returned
    detail,         \* the detail view: the row shown
    df_latest,      \* the per-student summary
    pc              \* where the script body is

vars == <<feedback, tag, secrets, session_state, input_pw, clicked, gpc, run_no,
          rows, columns, widgets, df_f, ana, detail, df_latest, pc>>

classifyVars == <<feedback, tag>>
gateVars == <<secrets, session_state, input_pw, clicked, gpc, run_no>>
dashVars == <<rows, columns, widgets, df_f, ana, detail, df_latest, pc>>

----------------------------------------------------------------------------
(* Bounds *)

MaxLen == 3        \* longest feedback text given to ox_from_feedback alone
MaxRuns == 5       \* script runs in one session
MaxRecords == 3    \* rows fetched
MaxFilterRecords == 2    \* rows fetched, in SpecFilter

----------------------------------------------------------------------------
(* Python values and text *)

None == [isStr |-> FALSE, chars |-> <<>>]
Str(s) == [isStr |-> TRUE, chars |-> s]

Whitespace == {" "}
Alphabet == {" ", "O", "X", ":", "m"}

RECURSIVE SeqsUpTo(_, _)
SeqsUpTo(S, n) ==
    IF n = 0 THEN {<<>>}
    ELSE LET shorter == SeqsUpTo(S, n - 1)
         IN  shorter \cup {Append(s, c) : s \in {t \in shorter : Len(t) = n - 1}, c \in S}

\* str.lstrip / str.rstrip / str.strip
RECURSIVE lstrip(_)
lstrip(s) == IF s # <<>> /\ Head(s) \in Whitespace THEN lstrip(Tail(s)) ELSE s

RECURSIVE rstrip(_)
rstrip(s) ==
    IF s # <<>> /\ s[Len(s)] \in Whitespace THEN rstrip(SubSeq(s, 1, Len(s) - 1)) ELSE s

strip(s) == rstrip(lstrip(s))

\* str.startswith
startswith(s, prefix) ==
    /\ Len(s) >= Len(prefix)
    /\ SubSeq(s, 1, Len(prefix)) = prefix

----------------------------------------------------------------------------
(* ox_from_feedback: "O", "X" or "None" *)

ox_no_strip(fb) ==
    IF ~fb.isStr \/ fb.chars = <<>> THEN "None"
    ELSE IF startswith(fb.chars, <<"O", ":">>) THEN "O"
    ELSE IF startswith(fb.chars, <<"X", ":">>) THEN "X"
    ELSE "None"

ox_from_feedback(fb) ==
    IF ~fb.isStr \/ fb.chars = <<>> THEN "None"
    ELSE LET f == strip(fb.chars)
         IN  IF startswith(f, <<"O", ":">>) THEN "O"
             ELSE IF startswith(f, <<"X", ":">>) THEN "X"
             ELSE "None"

----------------------------------------------------------------------------
(* Idle values of the parts a specification does not exercise *)

ClassifyIdle == feedback = None /\ tag = <<>>

NoKeys == [k \in {} |-> ""]

GateIdle ==
    /\ secrets = NoKeys
    /\ session_state = NoKeys
    /\ input_pw = ""
    /\ clicked = FALSE
    /\ gpc = "idle"
    /\ run_no = 0

DashIdle ==
    /\ rows = <<>>
    /\ columns = {}
    /\ widgets = <<>>
    /\ df_f = <<>>
    /\ ana = <<>>
    /\ detail = <<>>
    /\ df_latest = <<>>
    /\ pc = "off"

----------------------------------------------------------------------------
(* SpecClassify *)

FeedbackValues == {None} \cup {Str(s) : s \in SeqsUpTo(Alphabet, MaxLen)}

InitClassify ==
    /\ feedback \in FeedbackValues
    /\ tag = <<>>
    /\ GateIdle
    /\ DashIdle

Classify ==
    /\ tag = <<>>
    /\ tag' = <<ox_from_feedback(feedback)>>
    /\ UNCHANGED <<feedback, gateVars, dashVars>>

NextClassify == Classify

SpecClassify == InitClassify /\ [][NextClassify]_vars

----------------------------------------------------------------------------
(* SpecGate: teacher_gate over the runs of one session *)

PasswordTexts == {"", "pw", "Pw"}
InputTexts == {"", "pw", "Pw", "bad"}

\* st.secrets.get("TEACHER_PASSWORD", None); "" stands for None as well, both
\* are falsy in `if not pw`.
ConfiguredPassword == IF "TEACHER_PASSWORD" \in DOMAIN secrets THEN secrets["TEACHER_PASSWORD"] ELSE ""

PasswordConfigured == ConfiguredPassword # ""

\* session_state.teacher_authed, read after line 43 has defaulted it to False
Authed == "teacher_authed" \in DOMAIN session_state /\ session_state["teacher_authed"]

PasswordAlwaysMatches(input, pw) == TRUE

\* input_pw == pw
PasswordMatches(input, pw) == input = pw

InitGate ==
    /\ secrets \in {NoKeys} \cup {[k \in {"TEACHER_PASSWORD"} |-> p] : p \in PasswordTexts}
    /\ session_state = NoKeys
    /\ input_pw = ""
    /\ clicked = FALSE
    /\ gpc = "idle"
    /\ run_no = 0
    /\ ClassifyIdle
    /\ DashIdle

\* An interaction (or the first page load) starts a run of the script.  The
\* login widgets take input only when the previous run drew them, that is when
\* it ended in the st.stop() of teacher_gate.
StartRun ==
    /\ gpc \in {"idle", "stopped"}
    /\ run_no < MaxRuns
    /\ run_no' = run_no + 1
    /\ gpc' = "gate"
    /\ \E text \in InputTexts, button \in BOOLEAN :
        /\ (gpc = "idle" => text = "" /\ ~button)
        /\ input_pw' = text
        /\ clicked' = button
    /\ UNCHANGED <<secrets, session_state, classifyVars, dashVars>>

\* if not pw: return True
GateNoPassword ==
    /\ gpc = "gate"
    /\ ~PasswordConfigured
    /\ gpc' = "main"
    /\ UNCHANGED <<secrets, session_state, input_pw, clicked, run_no, classifyVars, dashVars>>

\* if st.session_state.teacher_authed: return True
GateAuthed ==
    /\ gpc = "gate"
    /\ PasswordConfigured
    /\ Authed
    /\ gpc' = "main"
    /\ UNCHANGED <<secrets, session_state, input_pw, clicked, run_no, classifyVars, dashVars>>

\* the button was clicked with the right password: teacher_authed = True and
\* st.rerun(), which ends this run and starts the next one, the button released
GateLoginOk ==
    /\ gpc = "gate"
    /\ PasswordConfigured
    /\ ~Authed
    /\ clicked
    /\ PasswordMatches(input_pw, ConfiguredPassword)
    /\ session_state' = [k \in {"teacher_authed"} |-> TRUE]
    /\ clicked' = FALSE
    /\ run_no' = run_no + 1
    /\ gpc' = "gate"
    /\ UNCHANGED <<secrets, input_pw, classifyVars, dashVars>>

\* the button was clicked with another password: the error, then st.stop()
GateLoginWrong ==
    /\ gpc = "gate"
    /\ PasswordConfigured
    /\ ~Authed
    /\ clicked
    /\ ~PasswordMatches(input_pw, ConfiguredPassword)
    /\ session_state' = [k \in {"teacher_authed"} |-> FALSE]
    /\ gpc' = "stopped"
    /\ UNCHANGED <<secrets, input_pw, clicked, run_no, classifyVars, dashVars>>

\* no click: the form is drawn, then st.stop()
GateShowForm ==
    /\ gpc = "gate"
    /\ PasswordConfigured
    /\ ~Authed
    /\ ~clicked
    /\ session_state' = [k \in {"teacher_authed"} |-> FALSE]
    /\ gpc' = "stopped"
    /\ UNCHANGED <<secrets, input_pw, clicked, run_no, classifyVars, dashVars>>

\* teacher_gate returned: the rest of the script runs (fetch_rows and every
\* st.dataframe of submission data) and the run ends
MainScript ==
    /\ gpc = "main"
    /\ gpc' = "idle"
    /\ UNCHANGED <<secrets, session_state, input_pw, clicked, run_no, classifyVars, dashVars>>

NextGate ==
    \/ StartRun
    \/ GateNoPassword
    \/ GateAuthed
    \/ GateLoginOk
    \/ GateLoginWrong
    \/ GateShowForm
    \/ MainScript

SpecGate == InitGate /\ [][NextGate]_vars

----------------------------------------------------------------------------
(* Text helpers of the script body *)

\* the characters the model's texts use, in code point order
AsciiOrder == <<" ", "1", "2", ":", "G", "N", "O", "X", "e", "g", "m", "n", "o", "x">>

ord(c) == CHOOSE i \in 1..Len(AsciiOrder) : AsciiOrder[i] = c

\* Python's < on str
RECURSIVE str_lt(_, _)
str_lt(a, b) ==
    IF b = <<>> THEN FALSE
    ELSE IF a = <<>> THEN TRUE
    ELSE IF Head(a) = Head(b) THEN str_lt(Tail(a), Tail(b))
    ELSE ord(Head(a)) < ord(Head(b))

\* str.lower, one character
lower_char(c) ==
    CASE c = "G" -> "g"
      [] c = "N" -> "n"
      [] c = "O" -> "o"
      [] c = "X" -> "x"
      [] OTHER -> c

\* Series.str.lower
lower(s) == [i \in 1..Len(s) |-> lower_char(s[i])]

\* Series.str.contains(q): q occurs in s (the queries of the model hold no
\* regular-expression metacharacter, so the pattern matches as plain text)
contains(s, q) == \E i \in 0..(Len(s) - Len(q)) : SubSeq(s, i + 1, i + Len(q)) = q

\* Series.astype(str): None becomes the text "None"
astype_str(v) == IF v.isStr THEN v.chars ELSE <<"N", "o", "n", "e">>

\* Series.notna, one value
notna(v) == v.isStr

----------------------------------------------------------------------------
(* Time: an instant is a number of seconds; NaT is what pd.to_datetime      *)
(* (errors="coerce") gives for a null or unparsable created_at             *)

NaT == -1
KstOffset == 32400
SecondsPerDay == 86400
SecondsPerMinute == 60

\* the KST calendar day of an instant (.dt.tz_convert(KST), then the date)
kst_date(t) == (t + KstOffset) \div SecondsPerDay

\* .dt.strftime("%Y-%m-%d %H:%M") in KST: the minute of the instant; -1 is the
\* "-" that fillna puts for NaT
strftime_minute(t) == IF t = NaT THEN -1 ELSE (t + KstOffset) \div SecondsPerMinute

\* datetime.combine(start_date, datetime.min.time(), tzinfo=KST)
start_dt_kst(d) == d * SecondsPerDay - KstOffset

\* datetime.combine(end_date, datetime.max.time(), tzinfo=KST): 23:59:59.999999,
\* the last whole second of the day at the model's resolution
end_dt_kst(d) == d * SecondsPerDay + (SecondsPerDay - 1) - KstOffset

----------------------------------------------------------------------------
(* Frames: a frame is a sequence of rows, each carrying its index label *)

FeedbackCols == {"feedback_1", "feedback_2", "feedback_3"}

\* f"feedback_{i}"
FeedbackColOf(i) == CASE i = 1 -> "feedback_1" [] i = 2 -> "feedback_2" [] i = 3 -> "feedback_3"

\* to_df: the frame of the fetched rows; student_id becomes text
to_df(rs) ==
    [i \in 1..Len(rs) |->
        [index |-> i - 1,
         student_id |-> astype_str(rs[i].student_id),
         created_at |-> rs[i].created_at,
         model |-> rs[i].model,
         feedback_1 |-> rs[i].feedback_1,
         feedback_2 |-> rs[i].feedback_2,
         feedback_3 |-> rs[i].feedback_3]]

Injective(n) == {p \in [1..n -> 1..n] : \A i, j \in 1..n : p[i] = p[j] => i = j}

\* DataFrame.sort_values(col, ascending=True) with the default kind, quicksort,
\* which is not stable: every order of the rows that is ascending in col
sort_values_asc(frame, col) ==
    {[i \in 1..Len(frame) |-> frame[p[i]]] :
        p \in {q \in Injective(Len(frame)) :
                \A i, j \in 1..Len(frame) : i < j => frame[q[i]][col] <= frame[q[j]][col]}}

\* DataFrame.sort_values(col, ascending=False) with the default kind, quicksort,
\* which is not stable: every order of the rows that is descending in col
\* (NaT, the least instant of the model, comes last: na_position="last")
sort_values_desc(frame, col) ==
    {[i \in 1..Len(frame) |-> frame[p[i]]] :
        p \in {q \in Injective(Len(frame)) :
                \A i, j \in 1..Len(frame) : i < j => frame[q[i]][col] >= frame[q[j]][col]}}

----------------------------------------------------------------------------
(* The filters, lines 186-210 *)

date_filter(frame, cols, w) ==
    IF "created_at" \in cols
    THEN LET Keep(r) == /\ r.created_at # NaT
                        /\ r.created_at >= start_dt_kst(w.start_date)
                        /\ r.created_at <= end_dt_kst(w.end_date)
         IN  SelectSeq(frame, Keep)
    ELSE frame

student_filter(frame, w) ==
    IF strip(w.student_query) # <<>>
    THEN LET q == strip(w.student_query)
             Keep(r) == contains(r.student_id, q)
         IN  SelectSeq(frame, Keep)
    ELSE frame

model_filter(frame, cols, w) ==
    IF strip(w.model_filter) # <<>> /\ "model" \in cols
    THEN LET mq == lower(strip(w.model_filter))
             Keep(r) == contains(lower(astype_str(r.model)), mq)
         IN  SelectSeq(frame, Keep)
    ELSE frame

feedback_filter(frame, cols, w) ==
    IF w.only_with_feedback /\ (FeedbackCols \cap cols) # {}
    THEN LET Keep(r) == \E c \in FeedbackCols \cap cols : notna(r[c])
         IN  SelectSeq(frame, Keep)
    ELSE frame

apply_filters(frame, cols, w) ==
    feedback_filter(model_filter(student_filter(date_filter(frame, cols, w), w), cols, w), cols, w)

----------------------------------------------------------------------------
(* build_analytics, lines 111-142 *)

\* df[col].apply(ox_from_feedback)
apply_ox(frame, col) == [i \in 1..Len(frame) |-> ox_from_feedback(frame[i][col])]

\* (ox == v).sum()
eq_sum(ox, v) == Cardinality({i \in 1..Len(ox) : ox[i] = v})

isna_as_notna(ox) == Cardinality({i \in 1..Len(ox) : ox[i] # "None"})

\* ox.isna().sum()
isna_sum(ox) == Cardinality({i \in 1..Len(ox) : ox[i] = "None"})

\* ox.notna().sum()
notna_sum(ox) == Cardinality({i \in 1..Len(ox) : ox[i] # "None"})

\* round(x, 1) of the quotient num/den, in tenths: the nearest tenth, a tie
\* going to the even one
round1(num, den) ==
    LET scaled == 10 * num
        q == scaled \div den
        r == scaled % den
    IN  IF 2 * r < den THEN q
        ELSE IF 2 * r > den THEN q + 1
        ELSE IF q % 2 = 0 THEN q ELSE q + 1

rate_truncated(cnt, n) == IF n # 0 THEN (10 * cnt * 100) \div n ELSE 0

\* (cnt / n * 100) if n else 0.0, then round(., 1); the value is in tenths of
\* a percent
rate(cnt, n) == IF n # 0 THEN round1(cnt * 100, n) ELSE 0

question_stat(frame, i) ==
    LET ox == apply_ox(frame, FeedbackColOf(i))
        n == notna_sum(ox)
    IN  [question |-> i,
         o_cnt |-> eq_sum(ox, "O"),
         x_cnt |-> eq_sum(ox, "X"),
         o_rate |-> rate(eq_sum(ox, "O"), n),
         x_rate |-> rate(eq_sum(ox, "X"), n),
         missing |-> isna_sum(ox)]

stats_rows(frame, cols) ==
    LET Present(i) == FeedbackColOf(i) \in cols
        one(i) == IF Present(i) THEN <<question_stat(frame, i)>> ELSE <<>>
    IN  one(1) \o one(2) \o one(3)

build_analytics_no_guard(frame, cols) == [isNone |-> FALSE, stats |-> stats_rows(frame, cols)]

build_analytics(frame, cols) ==
    IF frame = <<>> THEN [isNone |-> TRUE, stats |-> <<>>]
    ELSE [isNone |-> FALSE, stats |-> stats_rows(frame, cols)]

----------------------------------------------------------------------------
(* The detail view, lines 299-315 *)

\* sorted(df_f["student_id"].dropna().unique().tolist()), as a set
student_ids(frame) == {frame[i].student_id : i \in 1..Len(frame)}

\* df_f[df_f["student_id"] == sel_student]
rows_of_student(frame, sel) == LET Keep(r) == r.student_id = sel IN SelectSeq(frame, Keep)

\* df_s["created_at_kst"].dt.strftime("%Y-%m-%d %H:%M").fillna("-").tolist()
options_of(df_s) == [i \in 1..Len(df_s) |-> strftime_minute(df_s[i].created_at)]

\* idx_map = {options[i]: df_s.iloc[i] for i in range(len(options))}, read at
\* label: in a dict a later entry with the same key replaces the earlier one
idx_map(df_s, label) ==
    df_s[CHOOSE i \in 1..Len(df_s) :
            /\ options_of(df_s)[i] = label
            /\ \A j \in 1..Len(df_s) : options_of(df_s)[j] = label => j <= i]

----------------------------------------------------------------------------
(* The per-student summary, lines 353-370 *)

\* count_o_in_row: r.get of a column the frame does not have is None
count_o_in_row(r, cols) ==
    Cardinality({c \in FeedbackCols :
        ox_from_feedback(IF c \in cols THEN r[c] ELSE None) = "O"})

\* df_sum = df_f.copy(); df_sum["o_count"] = df_sum.apply(count_o_in_row, axis=1)
with_o_count(frame, cols) ==
    [i \in 1..Len(frame) |->
        [index |-> frame[i].index,
         student_id |-> frame[i].student_id,
         created_at |-> frame[i].created_at,
         o_count |-> count_o_in_row(frame[i], cols)]]

oldest_first(frame, cols) ==
    IF "created_at" \in cols THEN sort_values_asc(frame, "created_at") ELSE {frame}

\* df_sum.sort_values("created_at_kst", ascending=False) when the column is
\* there, df_sum as it is otherwise: the orders the group-by may be given
latest_first(frame, cols) ==
    IF "created_at" \in cols THEN sort_values_desc(frame, "created_at") ELSE {frame}

\* the ids of a set in ascending order (group keys are sorted: sort=True)
RECURSIVE ascending_ids(_)
ascending_ids(S) ==
    IF S = {} THEN <<>>
    ELSE LET least == CHOOSE a \in S : \A b \in S \ {a} : str_lt(a, b)
         IN  <<least>> \o ascending_ids(S \ {least})

no_groupby(frame) ==
    [i \in 1..Len(frame) |->
        [student_id |-> frame[i].student_id, o_count |-> frame[i].o_count]]

\* .groupby("student_id", as_index=False).first()[["student_id", "o_count"]]:
\* one row per key, keys ascending, each with the o_count of the first row of
\* its group in the order of the frame (o_count is never null)
groupby_first(frame) ==
    LET keys == ascending_ids(student_ids(frame))
        first_of(k) == frame[CHOOSE i \in 1..Len(frame) :
                                /\ frame[i].student_id = k
                                /\ \A j \in 1..(i - 1) : frame[j].student_id # k]
    IN  [n \in 1..Len(keys) |->
            [student_id |-> keys[n], o_count |-> first_of(keys[n]).o_count]]

not_sorted(frame) == {frame}

\* .sort_values("o_count", ascending=False)
sort_by_o_count(frame) == sort_values_desc(frame, "o_count")

----------------------------------------------------------------------------
(* The script body after teacher_gate, one action per section *)

\* if df.empty: st.info(...); st.stop()
LoadEmpty ==
    /\ pc = "load"
    /\ to_df(rows) = <<>>
    /\ pc' = "stopped"
    /\ UNCHANGED <<rows, columns, widgets, df_f, ana, detail, df_latest, classifyVars, gateVars>>

\* rows = fetch_rows(); df = to_df(rows); the four filters give df_f
FilterRows ==
    /\ pc = "load"
    /\ to_df(rows) # <<>>
    /\ df_f' = apply_filters(to_df(rows), columns, widgets)
    /\ pc' = "stats"
    /\ UNCHANGED <<rows, columns, widgets, ana, detail, df_latest, classifyVars, gateVars>>

\* ana = build_analytics(df_f)
Analytics ==
    /\ pc = "stats"
    /\ ana' = <<build_analytics(df_f, columns)>>
    /\ pc' = "detail"
    /\ UNCHANGED <<rows, columns, widgets, df_f, detail, df_latest, classifyVars, gateVars>>

\* the detail view: nothing while the student selectbox is on its placeholder,
\* the row idx_map gives for the chosen time option otherwise
Detail ==
    /\ pc = "detail"
    /\ \/ detail' = <<>>
       \/ \E sel \in student_ids(df_f) :
            \E df_s \in latest_first(rows_of_student(df_f, sel), columns) :
                \E k \in 1..Len(df_s) :
                    detail' = <<[student |-> sel,
                                 pos |-> k,
                                 row |-> IF "created_at" \in columns
                                         THEN idx_map(df_s, options_of(df_s)[k])
                                         ELSE df_s[1]]>>
    /\ pc' = "summary"
    /\ UNCHANGED <<rows, columns, widgets, df_f, ana, df_latest, classifyVars, gateVars>>

\* the per-student summary df_latest
Summary ==
    /\ pc = "summary"
    /\ \E ordered \in latest_first(with_o_count(df_f, columns), columns) :
            df_latest' \in sort_by_o_count(groupby_first(ordered))
    /\ pc' = "done"
    /\ UNCHANGED <<rows, columns, widgets, df_f, ana, detail, classifyVars, gateVars>>

NextDash ==
    \/ LoadEmpty
    \/ FilterRows
    \/ Analytics
    \/ Detail
    \/ Summary

----------------------------------------------------------------------------
(* Inputs of the script body *)

O_ok == Str(<<"O", ":">>)
X_no == Str(<<"X", ":">>)

BaseColumns == {"created_at", "student_id"}
AllColumns == BaseColumns \cup {"model"} \cup FeedbackCols

\* fetch_rows orders by created_at descending (a null created_at sorts first)
FetchOrder(rs) ==
    \A i, j \in 1..Len(rs) :
        i < j => \/ rs[i].created_at = NaT
                 \/ (rs[j].created_at # NaT /\ rs[i].created_at >= rs[j].created_at)

FetchedRows(Records, n) == {rs \in SeqsUpTo(Records, n) : FetchOrder(rs)}

\* the sidebar as it is on the first load, over the days the model's instants fall on
DefaultWidgets ==
    [start_date |-> 1, end_date |-> 2,
     student_query |-> <<>>, model_filter |-> <<>>, only_with_feedback |-> FALSE]

----------------------------------------------------------------------------
(* Spec: the script body on the submissions of two students *)

\* feedback_1..3 of one submission: one "O", two "O"
DashFeedback ==
    {<<O_ok, X_no, None>>, <<X_no, O_ok, O_ok>>}

DashRecords ==
    {[student_id |-> s, created_at |-> t, model |-> Str(<<"g">>),
      feedback_1 |-> f[1], feedback_2 |-> f[2], feedback_3 |-> f[3]] :
        s \in {Str(<<"1">>), Str(<<"2">>)},
        t \in {100000, 100010, 100060},
        f \in DashFeedback}

Init ==
    /\ rows \in FetchedRows(DashRecords, MaxRecords)
    /\ columns = AllColumns
    /\ widgets = DefaultWidgets
    /\ df_f = <<>>
    /\ ana = <<>>
    /\ detail = <<>>
    /\ df_latest = <<>>
    /\ pc = "load"
    /\ ClassifyIdle
    /\ GateIdle

Next == NextDash

Spec == Init /\ [][Next]_vars

----------------------------------------------------------------------------
(* SpecStats: the script up to build_analytics, on rows that differ in      *)
(* their feedback, with and without the has-any-feedback filter            *)

\* the values of one feedback column: missing, "O:", "X:", a bare "O"
StatValues(col) ==
    CASE col = "feedback_1" -> {None, O_ok, X_no}
      [] col = "feedback_2" -> {O_ok, Str(<<"O">>)}
      [] col = "feedback_3" -> {None, X_no}

StatColumn(col, cols) == IF col \in cols THEN StatValues(col) ELSE {None}

StatRecords(cols) ==
    [student_id : {Str(<<"1">>)},
     created_at : {100000},
     model : {None},
     feedback_1 : StatColumn("feedback_1", cols),
     feedback_2 : StatColumn("feedback_2", cols),
     feedback_3 : StatColumn("feedback_3", cols)]

StatWidgets ==
    [start_date : {1}, end_date : {2},
     student_query : {<<>>}, model_filter : {<<>>}, only_with_feedback : BOOLEAN]

InitStats ==
    /\ columns \in {BaseColumns \cup F : F \in SUBSET FeedbackCols}
    /\ rows \in FetchedRows(StatRecords(columns), MaxRecords)
    /\ widgets \in StatWidgets
    /\ df_f = <<>>
    /\ ana = <<>>
    /\ detail = <<>>
    /\ df_latest = <<>>
    /\ pc = "load"
    /\ ClassifyIdle
    /\ GateIdle

NextStats ==
    \/ LoadEmpty
    \/ FilterRows
    \/ Analytics

SpecStats == InitStats /\ [][NextStats]_vars

----------------------------------------------------------------------------
(* SpecFilter: the script body under the sidebar filters, on rows with null *)
(* fields                                                                  *)

FilterRecords(cols) ==
    [student_id : {None, Str(<<"1">>)},
     created_at : {NaT, 100000, 150000},
     model : IF "model" \in cols THEN {None, Str(<<"G">>)} ELSE {None},
     feedback_1 : {None, O_ok},
     feedback_2 : {None},
     feedback_3 : {None}]

FilterWidgets ==
    [start_date : {1, 2},
     end_date : {2},
     student_query : {<<>>, <<"1">>, <<"o", "n">>},
     model_filter : {<<>>, <<"g">>, <<"O", "N", " ">>},
     only_with_feedback : BOOLEAN]

InitFilter ==
    /\ columns \in {AllColumns, AllColumns \ {"model"}}
    /\ rows \in FetchedRows(FilterRecords(columns), MaxFilterRecords)
    /\ widgets \in FilterWidgets
    /\ df_f = <<>>
    /\ ana = <<>>
    /\ detail = <<>>
    /\ df_latest = <<>>
    /\ pc = "load"
    /\ ClassifyIdle
    /\ GateIdle

SpecFilter == InitFilter /\ [][NextDash]_vars

----------------------------------------------------------------------------
(* Claims *)

\* The first character of fb that is not leading whitespace is at position i.
FirstTextAt(fb, i) ==
    /\ fb.isStr
    /\ i \in 1..Len(fb.chars)
    /\ fb.chars[i] \notin Whitespace
    /\ \A j \in 1..(i - 1) : fb.chars[j] \in Whitespace

\* The trimmed text starts with the one letter c.
TrimmedStartsWithLetter(fb, c) == \E i \in 1..Len(fb.chars) : FirstTextAt(fb, i) /\ fb.chars[i] = c

\* The trimmed text starts with the letter c followed by ":".
TrimmedStartsWithLetterColon(fb, c) ==
    \E i \in 1..Len(fb.chars) :
        /\ FirstTextAt(fb, i)
        /\ fb.chars[i] = c
        /\ i + 1 <= Len(fb.chars)
        /\ fb.chars[i + 1] = ":"

\* C1 as stated: after trimming, a leading "O" alone gives Correct ("O"), a
\* leading "X" alone gives Incorrect ("X"), with or without a ":" after it, and
\* everything else is Indeterminate (None).
C1_AsStated ==
    tag # <<>> =>
        tag[1] = IF TrimmedStartsWithLetter(feedback, "O") THEN "O"
                 ELSE IF TrimmedStartsWithLetter(feedback, "X") THEN "X"
                 ELSE "None"

\* C1 amended: ox_from_feedback trims and returns "O" exactly when the trimmed
\* text starts with "O:", "X" exactly when it starts with "X:", and None for
\* every other value: a bare "O" or "X", a non-string, "", whitespace only.
C1_PrefixWithColon ==
    tag # <<>> =>
        tag[1] = IF TrimmedStartsWithLetterColon(feedback, "O") THEN "O"
                 ELSE IF TrimmedStartsWithLetterColon(feedback, "X") THEN "X"
                 ELSE "None"

C1_Witness ==
    /\ tag = <<"O">>
    /\ Len(feedback.chars) = 3
    /\ feedback.chars[1] \in Whitespace

\* C9, the state part: with a password configured, a run is past teacher_gate
\* only while session_state.teacher_authed is true.
C9_PastGateOnlyAuthed == (PasswordConfigured /\ gpc = "main") => Authed

\* C9, the step part: teacher_authed turns true only in a gate step of a run
\* whose login button was clicked with the configured password; a click with
\* another password leaves it false and stops the run; once true it stays
\* true; with no password configured the gate passes.
C9_GateStep ==
    /\ (~Authed /\ Authed') =>
            (gpc = "gate" /\ clicked /\ input_pw = ConfiguredPassword /\ PasswordConfigured)
    /\ (gpc = "gate" /\ PasswordConfigured /\ ~Authed /\ clicked /\ input_pw # ConfiguredPassword) =>
            (~Authed' /\ gpc' = "stopped")
    /\ Authed => Authed'
    /\ (gpc = "gate" /\ ~PasswordConfigured) => gpc' = "main"

\* C9: password gate safety over any sequence of reruns and login attempts.
C9_GateSafety == [](C9_PastGateOnlyAuthed) /\ [][C9_GateStep]_vars

\* a session that was refused once, then logged in and got past the gate
C9_Witness ==
    /\ PasswordConfigured
    /\ Authed
    /\ gpc = "main"
    /\ run_no >= 4

\* the question rows of a computed, non-None result
StatRows == IF ana # <<>> /\ ~ana[1].isNone THEN ana[1].stats ELSE <<>>

\* C2: for a non-empty record set and every question i whose feedback_i column
\* exists, build_analytics emits one row for i and in it correctCount +
\* incorrectCount + indeterminateCount is the number of records.
C2_CountsPartitionRecords ==
    (ana # <<>> /\ df_f # <<>>) =>
        \A i \in 1..3 :
            FeedbackColOf(i) \in columns =>
                /\ Cardinality({n \in 1..Len(StatRows) : StatRows[n].question = i}) = 1
                /\ \A n \in 1..Len(StatRows) :
                        StatRows[n].question = i =>
                            StatRows[n].o_cnt + StatRows[n].x_cnt + StatRows[n].missing = Len(df_f)

C2_Witness ==
    /\ Len(df_f) = 3
    /\ \E n \in 1..Len(StatRows) :
            /\ StatRows[n].o_cnt = 1
            /\ StatRows[n].x_cnt = 1
            /\ StatRows[n].missing = 1

\* r tenths of a percent is cnt / den * 100 rounded to one decimal place
NearestTenth(r, cnt, den) ==
    LET diff == r * den - 1000 * cnt
    IN  2 * (IF diff < 0 THEN -diff ELSE diff) <= den

\* C3: in every question row, with classified = correctCount + incorrectCount,
\* the two rates are count / classified * 100 rounded to one decimal place when
\* classified > 0 and exactly 0.0 when classified = 0; each lies in [0, 100].
C3_RatesOverClassified ==
    \A n \in 1..Len(StatRows) :
        LET st == StatRows[n]
            classified == st.o_cnt + st.x_cnt
        IN  /\ classified > 0 =>
                    /\ NearestTenth(st.o_rate, st.o_cnt, classified)
                    /\ NearestTenth(st.x_rate, st.x_cnt, classified)
            /\ classified = 0 => (st.o_rate = 0 /\ st.x_rate = 0)
            /\ st.o_rate \in 0..1000
            /\ st.x_rate \in 0..1000

C3_Witness ==
    \E n \in 1..Len(StatRows) :
        /\ StatRows[n].o_cnt = 2
        /\ StatRows[n].x_cnt = 1
        /\ StatRows[n].o_rate = 667
        /\ StatRows[n].x_rate = 333

\* C8 as stated: on an empty record set build_analytics returns an empty
\* sequence of question rows, not an absent (None) value.
C8_AsStated ==
    (ana # <<>> /\ df_f = <<>>) => (~ana[1].isNone /\ ana[1].stats = <<>>)

\* C8 amended: on an empty record set build_analytics returns None (no rows, no
\* error), and it returns None for no other record set.
C8_EmptyGivesNone ==
    ana # <<>> =>
        /\ ana[1].isNone <=> df_f = <<>>
        /\ ana[1].isNone => ana[1].stats = <<>>

C8_Witness ==
    /\ ana # <<>>
    /\ df_f = <<>>
    /\ ana[1].isNone
    /\ "feedback_1" \in columns

\* the submissions of one student in the filtered set
SubmissionsOf(sid) == {i \in 1..Len(df_f) : df_f[i].student_id = sid}

\* submission i is a latest one of its student: none of them is more recent
IsLatest(i) ==
    \A j \in SubmissionsOf(df_f[i].student_id) : df_f[j].created_at <= df_f[i].created_at

\* the questions of submission i classified Correct
CorrectCount(i) ==
    Cardinality({q \in 1..3 :
        /\ FeedbackColOf(q) \in columns
        /\ ox_from_feedback(df_f[i][FeedbackColOf(q)]) = "O"})

\* C4: each row of the per-student summary holds the number of questions
\* classified Correct in a latest submission (maximum created_at) of its
\* student, not a count of an older submission.
C4_CountOfLatestSubmission ==
    pc = "done" =>
        \A n \in 1..Len(df_latest) :
            \E i \in SubmissionsOf(df_latest[n].student_id) :
                /\ IsLatest(i)
                /\ df_latest[n].o_count = CorrectCount(i)

\* A has O,X,missing at T1 and X,O,O at T2 > T1: the summary gives A the count 2
C4_Witness ==
    /\ pc = "done"
    /\ \E i, j \in 1..Len(df_f) :
            /\ df_f[i].student_id = df_f[j].student_id
            /\ df_f[i].created_at < df_f[j].created_at
            /\ CorrectCount(i) = 1
            /\ CorrectCount(j) = 2
            /\ IsLatest(j)
            /\ \E n \in 1..Len(df_latest) :
                    /\ df_latest[n].student_id = df_f[j].student_id
                    /\ df_latest[n].o_count = 2

\* C5: the per-student summary has exactly one row per distinct student_id of
\* the record set: none twice, none missing.
C5_OneRowPerStudent ==
    pc = "done" =>
        /\ {df_latest[n].student_id : n \in 1..Len(df_latest)}
                = {df_f[i].student_id : i \in 1..Len(df_f)}
        /\ \A m, n \in 1..Len(df_latest) :
                df_latest[m].student_id = df_latest[n].student_id => m = n

C5_Witness ==
    /\ pc = "done"
    /\ Len(df_f) = 3
    /\ Len(df_latest) = 2

\* C6 as stated: the summary is ordered by outcomeCount descending and rows
\* with equal outcomeCount by student_id ascending.
C6_AsStated ==
    pc = "done" =>
        \A m, n \in 1..Len(df_latest) :
            m < n =>
                \/ df_latest[m].o_count > df_latest[n].o_count
                \/ /\ df_latest[m].o_count = df_latest[n].o_count
                   /\ str_lt(df_latest[m].student_id, df_latest[n].student_id)

\* C6 amended: the summary is ordered by outcomeCount descending (the order of
\* rows with equal outcomeCount is whatever the unstable sort leaves).
C6_OrderedByCountDescending ==
    pc = "done" =>
        \A m, n \in 1..Len(df_latest) :
            m < n => df_latest[m].o_count >= df_latest[n].o_count

\* the sort moved the student with the greater id in front
C6_Witness ==
    /\ pc = "done"
    /\ Len(df_latest) = 2
    /\ df_latest[1].o_count > df_latest[2].o_count
    /\ str_lt(df_latest[2].student_id, df_latest[1].student_id)

\* the instant of the k-th most recent of a student's submissions
KthMostRecent(sid, k, t) ==
    /\ Cardinality({i \in SubmissionsOf(sid) : df_f[i].created_at > t}) < k
    /\ Cardinality({i \in SubmissionsOf(sid) : df_f[i].created_at >= t}) >= k

\* C10: the record the detail view shows for the time option at position k is
\* the k-th most recent submission of the selected student (position 1, the
\* default, the most recent), also when two submissions share a KST minute.
C10_AsStated ==
    detail # <<>> =>
        KthMostRecent(detail[1].student, detail[1].pos, detail[1].row.created_at)

\* what C7 asks of one fetched row under the sidebar inputs
WantedByFilters(r) ==
    LET q == strip(widgets.student_query)
        mq == strip(widgets.model_filter)
        fb_cols == FeedbackCols \cap columns
    IN  /\ /\ r.created_at # NaT
           /\ kst_date(r.created_at) >= widgets.start_date
           /\ kst_date(r.created_at) <= widgets.end_date
        /\ q # <<>> => (r.student_id.isStr /\ contains(r.student_id.chars, q))
        /\ (mq # <<>> /\ "model" \in columns) =>
                (r.model.isStr /\ contains(lower(r.model.chars), lower(mq)))
        /\ (widgets.only_with_feedback /\ fb_cols # {}) =>
                \E c \in fb_cols : r[c].isStr

\* C7: the filters keep exactly the records that satisfy every active
\* predicate, a null student_id or model never matching a non-empty query and a
\* record with no feedback never passing the has-any-feedback filter.
C7_AsStated ==
    pc \in {"stats", "detail", "summary", "done"} =>
        {df_f[n].index : n \in 1..Len(df_f)}
            = {i - 1 : i \in {j \in 1..Len(rows) : WantedByFilters(rows[j])}}

====
